---- MODULE Spec2Model ----
(***************************************************************************)
(* Model of src/demo.tsx: the editable table of App (the Row Store:        *)
(* dataSource, count, handleAdd, handleDelete, handleSave) and of the      *)
(* EditableRow / EditableCell components (one form scope per row, one      *)
(* editing flag per cell, the asynchronous save of a cell).                *)
(*                                                                         *)
(* JavaScript values are tagged pairs <<typeof, payload>>, so that the     *)
(* string '2' and the number 2 are different values, as they are for ===.  *)
(***************************************************************************)
EXTENDS Integers, Sequences, FiniteSets, TLC

VARIABLES
    dataSource,      \* useState<DataType[]>: the Row Sequence now rendered
    count,           \* useState(2): the key counter
    defaultColumns,  \* dataIndex -> the truthiness of the descriptor's `editable`
    editing,         \* <<key, dataIndex>> -> the cell's useState(false)
    form,            \* key -> the value store of the row's Form.useForm()
    pending,         \* the save() calls suspended at await form.validateFields()
    focus,           \* the cell whose Input has the focus, or NoCell
    saves,           \* the number of save() calls so far
    lastEvent,       \* the event handled last (observer of the handlers)
    issued,          \* the counter values handleAdd has used as a key so far
    heap,            \* the array objects allocated so far, by identity
    ref              \* the array object that dataSource refers to (0: not tracked)

vars == <<dataSource, count, defaultColumns, editing, form, pending, focus, saves,
          lastEvent, issued, heap, ref>>

(***************************************************************************)
(* Bounds of the model.                                                    *)
(***************************************************************************)
MaxCount == 3        \* handleAdd is offered while count < MaxCount
MaxSaves == 2        \* save() calls (commits) in one run
MaxEditing == 2      \* cells that may be in EDIT at once
MaxLen == 2          \* longest Row Sequence the store harness starts from
MaxHeap == 4         \* array objects allocated in one run of the heap harness

(***************************************************************************)
(* Values.                                                                 *)
(***************************************************************************)
Str(s) == <<"string", s>>
Num(n) == <<"number", n>>
Bool(b) == <<"boolean", b>>
Undefined == <<"undefined">>

Fields == {"key", "name", "price", "quantity", "discount", "assignee"}

\* The dataIndex of the five descriptors of defaultColumns.
DataIndexes == {"name", "price", "discount", "quantity", "assignee"}

\* The initial Row Sequence of App.
InitialData ==
    << [key |-> Str("0"), name |-> Str("Instrument 88B"), price |-> Num(100),
        discount |-> Num(0), quantity |-> Num(1), assignee |-> Bool(TRUE)],
       [key |-> Str("1"), name |-> Str("Critical Stage Inspections"),
        price |-> Num(100), quantity |-> Num(3), discount |-> Num(0),
        assignee |-> Bool(FALSE)] >>

InitialCount == 2

\* record[f] of JavaScript: undefined when the property is absent.
Get(record, f) == IF f \in DOMAIN record THEN record[f] ELSE Undefined

\* { ...item, ...row }: the properties of row win, those of item alone stay.
SpreadNoOld(item, row) == row
Spread(item, row) ==
    [f \in (DOMAIN item) \cup (DOMAIN row) |->
        IF f \in DOMAIN row THEN row[f] ELSE item[f]]

\* The object spread of undefined contributes no property.
NoProps == [f \in {} |-> Undefined]

KeysOf(ds) == {ds[i].key : i \in 1..Len(ds)}

\* Array.prototype.findIndex with (item) => key === item.key: 0-based, -1 if none.
FindIndex(ds, key) ==
    IF \E i \in 1..Len(ds) : ds[i].key = key
    THEN (CHOOSE i \in 1..Len(ds) :
             /\ ds[i].key = key
             /\ \A j \in 1..(i - 1) : ds[j].key # key) - 1
    ELSE -1

\* arr[index] of JavaScript for a 0-based index: undefined outside the array,
\* which the spread then treats as no properties.
At(ds, index) == IF index >= 0 /\ index < Len(ds) THEN ds[index + 1] ELSE NoProps

\* Array.prototype.splice(start, deleteCount, item) on a copy of ds.
SpliceInsertOnly(ds, start, deleteCount, item) ==
    LET len == Len(ds)
        s == IF start < 0 THEN (IF len + start > 0 THEN len + start ELSE 0)
             ELSE (IF start < len THEN start ELSE len)
    IN  SubSeq(ds, 1, s) \o <<item>> \o SubSeq(ds, s + 1, len)
Splice(ds, start, deleteCount, item) ==
    LET len == Len(ds)
        s == IF start < 0 THEN (IF len + start > 0 THEN len + start ELSE 0)
             ELSE (IF start < len THEN start ELSE len)
        d0 == IF deleteCount < 0 THEN 0 ELSE deleteCount
        d == IF d0 < len - s THEN d0 ELSE len - s
    IN  SubSeq(ds, 1, s) \o <<item>> \o SubSeq(ds, s + d + 1, len)

(***************************************************************************)
(* The Row Store operations, as functions of the closure's dataSource.     *)
(***************************************************************************)
\* handleDelete: dataSource.filter((item) => item.key !== key)
HandleDeleteFirst(ds, key) ==
    IF Len(ds) > 0 /\ ds[1].key = key THEN Tail(ds) ELSE ds
HandleDelete(ds, key) ==
    LET Keep(item) == item.key # key IN SelectSeq(ds, Keep)

\* handleAdd: the record built from count, appended to a copy.
NewData(cnt) == [key |-> Num(cnt), name |-> Str("Section 10.7 (2)")]
HandleAdd(ds, cnt) == Append(ds, NewData(cnt))

\* setCount(count + 1)
NextCountSame(cnt) == cnt
NextCount(cnt) == cnt + 1

\* handleSave: findIndex, then splice(index, 1, {...item, ...row}) on a copy.
HandleSave(ds, row) ==
    LET index == FindIndex(ds, row.key)
        item == At(ds, index)
    IN  Splice(ds, index, 1, Spread(item, row))

(***************************************************************************)
(* The column descriptors and the cells.                                   *)
(***************************************************************************)
\* defaultColumns as written: name has editable: false, the others none.
SourceColumns == [c \in DataIndexes |-> FALSE]

\* The descriptors the components are run under: those of the source, and
\* the same descriptors with `editable: true` on Price and Quantity (the
\* option the onCell branch of `columns` is written for).
ColumnConfigs ==
    { SourceColumns,
      [c \in DataIndexes |-> c \in {"price", "quantity"}] }

\* columns: onCell (and with it the editable prop of the cell) only for a
\* descriptor whose editable is truthy.
EditableAlways(c) == TRUE
Editable(c) == defaultColumns[c]

\* The keys a row can have: those of InitialData and those handleAdd issues.
AllKeys == KeysOf(InitialData) \cup {Num(n) : n \in InitialCount..(MaxCount - 1)}

Cells == AllKeys \X DataIndexes
NoCell == <<Undefined, "none">>

\* What the user can leave in the Input: nothing, or a text.
InputValues == {Str(""), Str("5")}

EmptyForm == [c \in DataIndexes |-> Undefined]

\* The record with this key in ds (the record prop of the row's cells).
RecordOf(ds, key) == At(ds, FindIndex(ds, key))

\* The Form.Items mounted in the row: the cells of the row that are in EDIT.
Registered(key) == {c \in DataIndexes : editing[<<key, c>>]}

\* rules: [{ required: true }]: undefined and '' are rejected.
RequiredOkAny(v) == TRUE
RequiredOk(v) == v # Undefined /\ v # Str("")

\* form.validateFields() without a field list: every registered field of the
\* row's form is validated, and the values of all of them are the result.
ValidateOk(key) == \A c \in Registered(key) : RequiredOk(form[key][c])
ValidateValues(key) == [c \in Registered(key) |-> form[key][c]]

\* The closure of one save() call suspended at the await: the cell, the
\* record and handleSave (hence dataSource) of the render it was created in.
\* id numbers the calls, so that two calls of one cell stay two. The rules
\* are run on the values the form holds when validateFields is called; the
\* promise settles later, and other events may be handled in between.
SaveCall(cell) ==
    [ id |-> saves, key |-> cell[1], dataIndex |-> cell[2],
      record |-> RecordOf(dataSource, cell[1]),
      dataSource |-> dataSource,
      ok |-> ValidateOk(cell[1]),
      values |-> ValidateValues(cell[1]),
      live |-> TRUE ]

Event(type, key, dataIndex) == [type |-> type, key |-> key, dataIndex |-> dataIndex]

\* Rendering ds: the rows (and so the cells, the forms) of keys no longer in
\* ds unmount and lose their state; a save() of an unmounted cell goes on with
\* setters that no longer reach a mounted component.
EditingAfter(e, ds) == [cell \in Cells |-> e[cell] /\ cell[1] \in KeysOf(ds)]
FormAfter(f, ds) == [k \in AllKeys |-> IF k \in KeysOf(ds) THEN f[k] ELSE EmptyForm]
PendingAfter(p, ds) ==
    [i \in 1..Len(p) |-> [p[i] EXCEPT !.live = p[i].live /\ p[i].key \in KeysOf(ds)]]
FocusAfter(fc, e, ds) ==
    IF fc # NoCell /\ fc[1] \in KeysOf(ds) /\ e[fc] THEN fc ELSE NoCell

RemoveAt(p, i) == SubSeq(p, 1, i - 1) \o SubSeq(p, i + 1, Len(p))

EditingCount == Cardinality({cell \in Cells : editing[cell]})

(***************************************************************************)
(* The initial state: App and its cells as first rendered.                 *)
(***************************************************************************)
\* The identity of the array objects is followed in the heap harness only.
NoHeap == heap = <<>> /\ ref = 0

InitWith(descriptors) ==
    /\ dataSource = InitialData
    /\ count = InitialCount
    /\ defaultColumns = descriptors
    /\ editing = [cell \in Cells |-> FALSE]
    /\ form = [k \in AllKeys |-> EmptyForm]
    /\ pending = <<>>
    /\ focus = NoCell
    /\ saves = 0
    /\ issued = {}

Init ==
    /\ \E descriptors \in ColumnConfigs : InitWith(descriptors)
    /\ lastEvent = Event("init", Undefined, "none")
    /\ NoHeap

(***************************************************************************)
(* The events.                                                             *)
(***************************************************************************)
\* The Add Product button: handleAdd of the current render.
ClickAdd ==
    /\ focus = NoCell
    /\ count < MaxCount
    /\ dataSource' = HandleAdd(dataSource, count)
    /\ count' = NextCount(count)
    /\ issued' = issued \cup {count}
    /\ lastEvent' = Event("add", Num(count), "none")
    /\ UNCHANGED <<defaultColumns, editing, form, pending, focus, saves, heap, ref>>

\* handleDelete of the current render (defined, wired to no control).
Delete(key) ==
    /\ focus = NoCell
    /\ dataSource' = HandleDelete(dataSource, key)
    /\ editing' = EditingAfter(editing, dataSource')
    /\ form' = FormAfter(form, dataSource')
    /\ pending' = PendingAfter(pending, dataSource')
    /\ lastEvent' = Event("delete", key, "none")
    /\ UNCHANGED <<count, defaultColumns, focus, saves, issued, heap, ref>>

\* toggleEdit of a cell in VIEW: setEditing(!editing), then the field of
\* the row's form is set to record[dataIndex].
ToggleEditNoSeed(cell) ==
    /\ editing' = [editing EXCEPT ![cell] = ~editing[cell]]
    /\ form' = form
ToggleEdit(cell) ==
    /\ editing' = [editing EXCEPT ![cell] = ~editing[cell]]
    /\ form' = [form EXCEPT ![cell[1]][cell[2]] =
                   Get(RecordOf(dataSource, cell[1]), cell[2])]

\* A click on the td of a cell in VIEW. Only the div of an editable cell
\* has the onClick; the effect of [editing] then focuses the Input.
ClickCell(cell) ==
    /\ focus = NoCell
    /\ cell[1] \in KeysOf(dataSource)
    /\ ~editing[cell]
    /\ IF Editable(cell[2])
       THEN /\ EditingCount < MaxEditing
            /\ ToggleEdit(cell)
            /\ focus' = cell
       ELSE UNCHANGED <<editing, form, focus>>
    /\ lastEvent' = Event("click", cell[1], cell[2])
    /\ UNCHANGED <<dataSource, count, defaultColumns, pending, saves, issued, heap, ref>>

\* A click into the Input of a cell that stayed in EDIT: it gets the focus.
ClickInput(cell) ==
    /\ focus = NoCell
    /\ editing[cell]
    /\ focus' = cell
    /\ lastEvent' = Event("clickInput", cell[1], cell[2])
    /\ UNCHANGED <<dataSource, count, defaultColumns, editing, form, pending, saves, issued, heap, ref>>

\* The user edits the text of the focused Input: the Form.Item writes the
\* row's form.
Type(v) ==
    /\ focus # NoCell
    /\ form[focus[1]][focus[2]] # v
    /\ form' = [form EXCEPT ![focus[1]][focus[2]] = v]
    /\ lastEvent' = Event("type", focus[1], focus[2])
    /\ UNCHANGED <<dataSource, count, defaultColumns, editing, pending, focus, saves, issued, heap, ref>>

\* onPressEnter={save}: save() runs up to the await; the Input keeps the focus.
PressEnter ==
    /\ focus # NoCell
    /\ saves < MaxSaves
    /\ saves' = saves + 1
    /\ pending' = Append(pending, SaveCall(focus))
    /\ lastEvent' = Event("pressEnter", focus[1], focus[2])
    /\ UNCHANGED <<dataSource, count, defaultColumns, editing, form, focus, issued, heap, ref>>

\* onBlur={save}: the Input loses the focus, save() runs up to the await.
Blur ==
    /\ focus # NoCell
    /\ saves < MaxSaves
    /\ saves' = saves + 1
    /\ pending' = Append(pending, SaveCall(focus))
    /\ focus' = NoCell
    /\ lastEvent' = Event("blur", focus[1], focus[2])
    /\ UNCHANGED <<dataSource, count, defaultColumns, editing, form, issued, heap, ref>>

\* The continuation of save() after the await, validation having passed:
\* toggleEdit() and handleSave({...record, ...values}) of the closure.
SaveResolved(i) ==
    LET p == pending[i]
        cell == <<p.key, p.dataIndex>>
        row == Spread(p.record, p.values)
        e == IF p.live THEN [editing EXCEPT ![cell] = FALSE] ELSE editing
        f == IF p.live
             THEN [form EXCEPT ![p.key][p.dataIndex] = Get(p.record, p.dataIndex)]
             ELSE form
    IN  /\ p.ok
        /\ dataSource' = HandleSave(p.dataSource, row)
        /\ editing' = EditingAfter(e, dataSource')
        /\ form' = FormAfter(f, dataSource')
        /\ pending' = PendingAfter(RemoveAt(pending, i), dataSource')
        /\ focus' = FocusAfter(focus, e, dataSource')
        /\ lastEvent' = Event("saved", p.key, p.dataIndex)
        /\ UNCHANGED <<count, defaultColumns, saves, issued, heap, ref>>

\* The catch of save(): validation rejected, the error is logged.
SaveRejected(i) ==
    LET p == pending[i]
    IN  /\ ~p.ok
        /\ pending' = RemoveAt(pending, i)
        /\ lastEvent' = Event("saveFailed", p.key, p.dataIndex)
        /\ UNCHANGED <<dataSource, count, defaultColumns, editing, form, focus, saves, issued, heap, ref>>

Next ==
    \/ ClickAdd
    \/ \E cell \in Cells : ClickCell(cell)
    \/ \E cell \in Cells : ClickInput(cell)
    \/ \E v \in InputValues : Type(v)
    \/ PressEnter
    \/ Blur
    \/ \E i \in 1..Len(pending) : SaveResolved(i)
    \/ \E i \in 1..Len(pending) : SaveRejected(i)

\* App as it is composed in the source: the Add Product button and the cells.
Spec == Init /\ [][Next]_vars

(***************************************************************************)
(* App with handleDelete called as well (the source defines it and wires   *)
(* it to no control), under the descriptors with Quantity editable.        *)
(***************************************************************************)
InitRemove ==
    /\ InitWith([c \in DataIndexes |-> c = "quantity"])
    /\ lastEvent = Event("init", Undefined, "none")
    /\ NoHeap

NextRemove ==
    \/ Next
    \/ \E k \in AllKeys : Delete(k)

SpecRemove == InitRemove /\ [][NextRemove]_vars

(***************************************************************************)
(* The Row Store operations alone, applied to bounded Row Sequences: every *)
(* sequence of at most MaxLen records of distinct keys, then any calls of  *)
(* handleAdd, handleDelete and handleSave. lastEvent keeps the call and    *)
(* the sequence it was applied to.                                         *)
(***************************************************************************)
\* A key that no record of the harness has.
MissingKey == Str("9")

StoreRecords ==
    { InitialData[1], InitialData[2] } \cup
    { NewData(n) : n \in InitialCount..(MaxCount - 1) }

StoreKeys == {r.key : r \in StoreRecords} \cup {MissingKey}

\* The rows handleSave is called with: for every key a fully-specified
\* record and a record holding the key and one field only.
FullRow(k) ==
    [key |-> k, name |-> Str("Edited"), price |-> Num(7), quantity |-> Num(5),
     discount |-> Num(0), assignee |-> Bool(FALSE)]
PartRow(k) == [key |-> k, quantity |-> Str("5")]
StoreRows == {FullRow(k) : k \in StoreKeys} \cup {PartRow(k) : k \in StoreKeys}

UniqueKeys(ds) == \A i, j \in 1..Len(ds) : ds[i].key = ds[j].key => i = j

StoreSeqs ==
    { ds \in UNION {[1..n -> StoreRecords] : n \in 0..MaxLen} : UniqueKeys(ds) }

Call(type, arg, before) == [type |-> type, arg |-> arg, before |-> before]

InitStore ==
    /\ dataSource \in StoreSeqs
    /\ count = MaxCount
    /\ defaultColumns = SourceColumns
    /\ editing = [cell \in Cells |-> FALSE]
    /\ form = [k \in AllKeys |-> EmptyForm]
    /\ pending = <<>>
    /\ focus = NoCell
    /\ saves = 0
    /\ issued = {}
    /\ lastEvent = Call("init", Undefined, dataSource)
    /\ NoHeap

StoreAdd ==
    /\ count <= MaxCount
    /\ dataSource' = HandleAdd(dataSource, count)
    /\ count' = NextCount(count)
    /\ issued' = issued \cup {count}
    /\ lastEvent' = Call("handleAdd", Num(count), dataSource)
    /\ UNCHANGED <<defaultColumns, editing, form, pending, focus, saves, heap, ref>>

StoreDelete(key) ==
    /\ dataSource' = HandleDelete(dataSource, key)
    /\ lastEvent' = Call("handleDelete", key, dataSource)
    /\ UNCHANGED <<count, defaultColumns, editing, form, pending, focus, saves, issued, heap, ref>>

StoreSave(row) ==
    /\ dataSource' = HandleSave(dataSource, row)
    /\ lastEvent' = Call("handleSave", row, dataSource)
    /\ UNCHANGED <<count, defaultColumns, editing, form, pending, focus, saves, issued, heap, ref>>

NextStore ==
    \/ StoreAdd
    \/ \E k \in StoreKeys : StoreDelete(k)
    \/ \E row \in StoreRows : StoreSave(row)

SpecStore == InitStore /\ [][NextStore]_vars

\* The same calls, from the Row Sequence and the counter App starts with.
InitOps ==
    /\ InitWith(SourceColumns)
    /\ lastEvent = Call("init", Undefined, InitialData)
    /\ NoHeap

SpecOps == InitOps /\ [][NextStore]_vars

(***************************************************************************)
(* The Row Store operations over array objects. heap[i] is the content of  *)
(* the i-th array allocated; ref is the one dataSource refers to. A        *)
(* handler may be the one of any earlier render (a save() that completes   *)
(* late calls the handleSave it captured), so each call is made with any   *)
(* array r published so far as its dataSource.                             *)
(***************************************************************************)
\* A new array object with this content: the result of an array literal or
\* of filter.
Alloc(h, arr) == [heap |-> Append(h, arr), at |-> Len(h) + 1]

\* const newData = [...dataSource]: a new array with the elements of r.
NoCopy(h, r) == [heap |-> h, at |-> r]
SpreadCopy(h, r) == Alloc(h, h[r])

InitHeap ==
    /\ InitWith(SourceColumns)
    /\ lastEvent = Call("init", Undefined, InitialData)
    /\ heap = <<InitialData>>
    /\ ref = 1

\* setDataSource([...dataSource, newData]); setCount(count + 1)
HeapAdd(r) ==
    LET a == Alloc(heap, HandleAdd(heap[r], count))
    IN  /\ Len(heap) < MaxHeap
        /\ count <= MaxCount
        /\ heap' = a.heap
        /\ ref' = a.at
        /\ dataSource' = heap'[ref']
        /\ count' = NextCount(count)
        /\ issued' = issued \cup {count}
        /\ lastEvent' = Call("handleAdd", Num(count), heap[r])
        /\ UNCHANGED <<defaultColumns, editing, form, pending, focus, saves>>

\* setDataSource(dataSource.filter(...))
HeapDelete(r, key) ==
    LET a == Alloc(heap, HandleDelete(heap[r], key))
    IN  /\ Len(heap) < MaxHeap
        /\ heap' = a.heap
        /\ ref' = a.at
        /\ dataSource' = heap'[ref']
        /\ lastEvent' = Call("handleDelete", key, heap[r])
        /\ UNCHANGED <<count, defaultColumns, editing, form, pending, focus, saves, issued>>

\* newData = [...dataSource]; newData.splice(...) changes newData in place;
\* setDataSource(newData)
HeapSave(r, row) ==
    LET c == SpreadCopy(heap, r)
    IN  /\ Len(heap) < MaxHeap
        /\ heap' = [c.heap EXCEPT ![c.at] = HandleSave(c.heap[c.at], row)]
        /\ ref' = c.at
        /\ dataSource' = heap'[ref']
        /\ lastEvent' = Call("handleSave", row, heap[r])
        /\ UNCHANGED <<count, defaultColumns, editing, form, pending, focus, saves, issued>>

NextHeap ==
    \/ \E r \in 1..Len(heap) : HeapAdd(r)
    \/ \E r \in 1..Len(heap) : \E k \in StoreKeys : HeapDelete(r, k)
    \/ \E r \in 1..Len(heap) : \E row \in StoreRows : HeapSave(r, row)

SpecHeap == InitHeap /\ [][NextHeap]_vars

(***************************************************************************)
(* Properties.                                                             *)
(***************************************************************************)
Ids(p) == {p[i].id : i \in 1..Len(p)}

\* The state App is constructed in, nothing clicked yet.
Untouched ==
    /\ dataSource = InitialData
    /\ count = InitialCount
    /\ pending = <<>>
    /\ \A cell \in Cells : ~editing[cell]

\* C1: after any sequence of adds, removes and updates from the initial
\* two-record sequence, no two records of the Row Sequence have the same key.
CexC1 == \A i, j \in 1..Len(dataSource) :
             dataSource[i].key = dataSource[j].key => i = j

\* C2: every add appends exactly one record at the end, keeps the records
\* before it and their order, and grows the length by one; the first add from
\* the initial state yields length 3 with a last record of key "2".
CexC2 ==
    [][ lastEvent'.type = "add" =>
          /\ Len(dataSource') = Len(dataSource) + 1
          /\ SubSeq(dataSource', 1, Len(dataSource)) = dataSource
          /\ (dataSource = InitialData /\ count = InitialCount) =>
                 /\ Len(dataSource') = 3
                 /\ dataSource'[3].key = Str("2") ]_vars

\* C3: an update whose key matches no record is a no-op: the Row Sequence
\* after the call equals the sequence before it.
CexC3 ==
    (lastEvent.type = "handleSave"
        /\ lastEvent.arg.key \notin KeysOf(lastEvent.before))
    => dataSource = lastEvent.before

\* C4: an update whose key matches a record keeps length and order; the
\* matching record takes every field of the incoming record and keeps its
\* other fields; every record of another key is unchanged.
ThmC4 ==
    (lastEvent.type = "handleSave"
        /\ UniqueKeys(lastEvent.before)
        /\ lastEvent.arg.key \in KeysOf(lastEvent.before))
    => LET b == lastEvent.before
           r == lastEvent.arg
       IN  /\ Len(dataSource) = Len(b)
           /\ \A i \in 1..Len(b) :
                 IF b[i].key = r.key
                 THEN /\ DOMAIN dataSource[i] = (DOMAIN b[i]) \cup (DOMAIN r)
                      /\ \A f \in DOMAIN r : dataSource[i][f] = r[f]
                      /\ \A f \in (DOMAIN b[i]) \ (DOMAIN r) :
                            dataSource[i][f] = b[i][f]
                 ELSE dataSource[i] = b[i]

\* An update with the key and one field hit the first of two records.
WitC4 ==
    /\ lastEvent.type = "handleSave"
    /\ lastEvent.arg = PartRow(Str("0"))
    /\ Len(lastEvent.before) >= 2
    /\ lastEvent.before[1] = InitialData[1]
    /\ dataSource # lastEvent.before

\* C5: update is idempotent for a fully-specified record: applying it to its
\* own result yields that result again.
ThmC5 ==
    (lastEvent.type = "handleSave" /\ DOMAIN lastEvent.arg = Fields)
    => HandleSave(dataSource, lastEvent.arg) = dataSource

\* A fully-specified record was applied and changed the sequence.
WitC5 ==
    /\ lastEvent.type = "handleSave"
    /\ DOMAIN lastEvent.arg = Fields
    /\ lastEvent.arg.key \in KeysOf(lastEvent.before)
    /\ dataSource # lastEvent.before

\* C6: remove(k) yields the sequence without the record of key k, the others
\* in their order; it is the identity when no record has key k; and removing
\* k a second time changes nothing.
ThmC6 ==
    lastEvent.type = "handleDelete"
    => LET b == lastEvent.before
           k == lastEvent.arg
           kept == {i \in 1..Len(b) : b[i].key # k}
           Rank(i) == Cardinality({j \in kept : j <= i})
       IN  /\ Len(dataSource) = Cardinality(kept)
           /\ \A i \in kept : dataSource[Rank(i)] = b[i]
           /\ (k \notin KeysOf(b) => dataSource = b)
           /\ HandleDelete(dataSource, k) = dataSource

\* The last of several records was removed.
WitC6 ==
    /\ lastEvent.type = "handleDelete"
    /\ Len(lastEvent.before) >= 2
    /\ lastEvent.before[Len(lastEvent.before)].key = lastEvent.arg
    /\ Len(dataSource) = Len(lastEvent.before) - 1

\* C7: a commit whose value for the required field is empty fails
\* validation: when its save() completes, no cell changes between VIEW and
\* EDIT, handleSave is not called and the Row Sequence is unchanged, and the
\* failure ends in the catch of save().
ThmC7 ==
    [][ \A i \in 1..Len(pending) :
          LET p == pending[i]
          IN  (/\ p.values[p.dataIndex] \in {Undefined, Str("")}
               /\ p.id \notin Ids(pending'))
              => /\ editing' = editing
                 /\ dataSource' = dataSource
                 /\ lastEvent' = Event("saveFailed", p.key, p.dataIndex) ]_vars

\* A commit of an emptied Input has failed and its cell is still in EDIT.
WitC7 ==
    /\ lastEvent.type = "saveFailed"
    /\ editing[<<lastEvent.key, lastEvent.dataIndex>>]
    /\ form[lastEvent.key][lastEvent.dataIndex] = Str("")
    /\ pending = <<>>

\* C8: from the initial state, a click on the Quantity cell of the record of
\* key "0" puts that cell in EDIT (and entering "5" and committing then sets
\* the quantity to 5 and returns the cell to VIEW).
CexC8 ==
    [][ (Untouched /\ defaultColumns = SourceColumns
            /\ lastEvent' = Event("click", Str("0"), "quantity"))
        => editing'[<<Str("0"), "quantity">>] ]_vars

\* C9: a cell of a column not marked editable is never in EDIT, and no
\* save() call, hence no update of the Row Store, comes from it.
ThmC9 ==
    /\ \A cell \in Cells : ~defaultColumns[cell[2]] => ~editing[cell]
    /\ \A i \in 1..Len(pending) : defaultColumns[pending[i].dataIndex]
    /\ lastEvent.type \in {"saved", "saveFailed", "pressEnter", "blur"}
           => defaultColumns[lastEvent.dataIndex]
    /\ focus # NoCell => defaultColumns[focus[2]]

\* A cell of a column not marked editable was clicked, under descriptors
\* that mark other columns editable.
WitC9 ==
    /\ lastEvent.type = "click"
    /\ ~defaultColumns[lastEvent.dataIndex]
    /\ defaultColumns # SourceColumns
    /\ \E cell \in Cells : editing[cell]

PendingOf(cell) ==
    {i \in 1..Len(pending) :
        pending[i].live /\ <<pending[i].key, pending[i].dataIndex>> = cell}

DeclaredKinds ==
    [name |-> "string", price |-> "number", quantity |-> "number",
     discount |-> "number", assignee |-> "boolean"]

WellTyped(r) ==
    /\ DOMAIN r = Fields
    /\ \A f \in DataIndexes : r[f][1] = DeclaredKinds[f]

\* C15: in every reachable state every record of the Row Sequence has the six
\* fields of the Record type with values of the declared kinds.
CexC15 ==
    \A i \in 1..Len(dataSource) : WellTyped(dataSource[i])

ThmC17 ==
    \A cell \in Cells :
        (/\ lastEvent.type = "click"
         /\ <<lastEvent.key, lastEvent.dataIndex>> = cell
         /\ editing[cell])
        => form[cell[1]][cell[2]] = Get(RecordOf(dataSource, cell[1]), cell[2])

\* A cell entered again after a commit of '5' was applied to its record: the
\* form held the value of before that commit until the click.
WitC17 ==
    \E cell \in Cells :
        /\ lastEvent.type = "click"
        /\ <<lastEvent.key, lastEvent.dataIndex>> = cell
        /\ editing[cell]
        /\ saves >= 1
        /\ Get(RecordOf(dataSource, cell[1]), cell[2]) = Str("5")

\* C18: the key counter never decreases and stays above every key handleAdd
\* has issued; the key of each handleAdd is above all keys issued before it,
\* hence never one issued before, whether or not the record that carried the
\* earlier key is still in the Row Sequence.
ThmC18 ==
    [][ /\ count' >= count
        /\ \A n \in issued' : n < count'
        /\ lastEvent'.type = "handleAdd"
           => /\ lastEvent'.arg[1] = "number"
              /\ lastEvent'.arg[2] \notin issued
              /\ \A n \in issued : n < lastEvent'.arg[2] ]_vars

\* A second handleAdd, made after the record of the first one has left the
\* Row Sequence.
WitC18 ==
    /\ lastEvent.type = "handleAdd"
    /\ issued = {InitialCount, InitialCount + 1}
    /\ Num(InitialCount) \notin KeysOf(dataSource)

\* C19: handleAdd, handleDelete and handleSave never change an array that
\* was published before: every array object that exists before the call has
\* the same records in the same order after it, and the call publishes an
\* array object that did not exist before.
ThmC19 ==
    [][ lastEvent'.type \in {"handleAdd", "handleDelete", "handleSave"}
        => /\ Len(heap') > Len(heap)
           /\ \A i \in 1..Len(heap) : heap'[i] = heap[i]
           /\ ref' \in (Len(heap) + 1)..Len(heap')
           /\ dataSource' = heap'[ref'] ]_vars

\* A handleSave that changed a record: the array it was given is still as it
\* was, and the published array differs from it.
WitC19 ==
    /\ lastEvent.type = "handleSave"
    /\ Len(heap) >= 3
    /\ \E r \in 1..(Len(heap) - 1) :
          /\ heap[r] = lastEvent.before
          /\ heap[ref] # heap[r]

====
